---- MODULE Spec2Model ----
(***************************************************************************)
(* Model of the source-package acquisition and build engine of             *)
(* src/pypi_installer.py (class FedoraPyPIGitInstaller and main).          *)
(*                                                                         *)
(* Representation.  A Python str is a sequence of lexemes (short strings   *)
(* such as "https://", ".git", "==", " ", "\n"); str operations (strip,    *)
(* startswith, in, split) are computed on that sequence.  None and the     *)
(* empty str are both the empty sequence: every use the code makes of a    *)
(* branch, tag, commit or version is a truthiness test, which cannot tell  *)
(* them apart.  A path is a sequence of str components.                    *)
(***************************************************************************)
EXTENDS Integers, Sequences, FiniteSets, TLC

\* ------------------------------------------------------------------ bounds
MaxLines == 2   \* longest manifest enumerated (besides ExampleManifest)
MaxUrls  == 2   \* longest 'urls' array of a metadata response

\* ----------------------------------------------------------- str operations
None == <<>>

Whitespace == {" ", "\t", "\n"}

RECURSIVE LStrip(_)
LStrip(s) ==
    IF s # <<>> /\ Head(s) \in Whitespace THEN LStrip(Tail(s)) ELSE s

RECURSIVE RStrip(_)
RStrip(s) ==
    IF s # <<>> /\ s[Len(s)] \in Whitespace
    THEN RStrip(SubSeq(s, 1, Len(s) - 1))
    ELSE s

\* str.strip()
Strip(s) == RStrip(LStrip(s))

\* str.startswith(p) for a lexeme p, or a tuple of lexemes given as a set
StartsWith(s, ps) == s # <<>> /\ Head(s) \in ps

\* str.endswith(p)
EndsWith(s, p) == s # <<>> /\ s[Len(s)] = p

\* p in s
Contains(s, p) == \E i \in DOMAIN s : s[i] = p

\* length of the leading run of s free of the lexemes in seps
RECURSIVE RunLen(_, _)
RunLen(s, seps) ==
    IF s = <<>> \/ Head(s) \in seps THEN 0 ELSE 1 + RunLen(Tail(s), seps)

\* str.split(): split on runs of whitespace, no empty parts
RECURSIVE Split(_)
Split(s) ==
    LET t == LStrip(s)
        n == RunLen(t, Whitespace)
    IN  IF t = <<>> THEN <<>>
        ELSE <<SubSeq(t, 1, n)>> \o Split(SubSeq(t, n + 1, Len(t)))

\* str.split(sep, 1) for a str that contains sep
SplitOnce(s, sep) ==
    LET n == RunLen(s, {sep})
    IN  <<SubSeq(s, 1, n), SubSeq(s, n + 2, Len(s))>>

\* os.path.basename: what follows the last "/"
RECURSIVE Basename(_)
Basename(s) ==
    IF Contains(s, "/") THEN Basename(SubSeq(s, RunLen(s, {"/"}) + 2, Len(s)))
    ELSE s

\* ------------------------------------------------------- parse_source_line
UrlSchemes == {"http://", "https://", "git://", "ssh://"}

SkipInfo == [type |-> "skip", url |-> None, branch |-> None, tag |-> None,
             commit |-> None, package |-> None, version |-> None]

\* the loop over parts[1:] of parse_source_line: a later modifier of the same
\* kind overwrites an earlier one
RECURSIVE ParseModifiers(_, _)
ParseModifiers(parts, result) ==
    IF parts = <<>> THEN result
    ELSE LET part == Head(parts)
             val  == Tail(part)       \* part.split('=', 1)[1]
             next ==
                 IF StartsWith(part, {"--branch=", "-b="})
                     THEN [result EXCEPT !.branch = val]
                 ELSE IF StartsWith(part, {"--tag=", "-t="})
                     THEN [result EXCEPT !.tag = val]
                 ELSE IF StartsWith(part, {"--commit=", "-c="})
                     THEN [result EXCEPT !.commit = val]
                 ELSE result
         IN  ParseModifiers(Tail(parts), next)

\* mutant: the host/suffix test of line 492 left out
IsGitLineSchemeOnly(line) == StartsWith(line, UrlSchemes)

IsGitLine(line) ==
    /\ StartsWith(line, UrlSchemes)
    /\ \/ Contains(line, "github.com")
       \/ Contains(line, "gitlab.com")
       \/ Contains(line, ".git")

\* mutant: the comment test made before line.strip()
parse_source_line_unstripped(raw) ==
    IF raw = <<>> \/ StartsWith(raw, {"#"}) THEN SkipInfo
    ELSE IF IsGitLine(Strip(raw)) THEN
        ParseModifiers(Tail(Split(raw)),
                       [SkipInfo EXCEPT !.type = "git", !.url = Head(Split(raw))])
    ELSE [SkipInfo EXCEPT !.type = "pypi", !.package = Strip(raw)]

parse_source_line(raw) ==
    LET line == Strip(raw) IN
    IF line = <<>> \/ StartsWith(line, {"#"}) THEN SkipInfo
    ELSE IF IsGitLine(line) THEN
        LET parts == Split(line) IN
        ParseModifiers(Tail(parts),
                       [SkipInfo EXCEPT !.type = "git", !.url = Head(parts)])
    ELSE IF Contains(line, "==") THEN
        LET pv == SplitOnce(line, "==") IN
        [SkipInfo EXCEPT !.type = "pypi", !.package = Strip(pv[1]),
                         !.version = Strip(pv[2])]
    ELSE [SkipInfo EXCEPT !.type = "pypi", !.package = Strip(line)]

\* ------------------------------------------------------------ parse_git_url
\* returns <<clean_url, repo_name>>
parse_git_url(git_url) ==
    LET base == Basename(git_url) IN
    <<Strip(git_url),
      IF EndsWith(git_url, ".git") THEN SubSeq(base, 1, Len(base) - 1)
      ELSE base>>

\* ---------------------------------------------------------- download_source
\* Index in urls of the distribution download_source selects, 0 when none is
\* suitable: the first sdist, else the first bdist_wheel or bdist_egg.  An
\* entry whose url is empty is passed over by "if not source_url".
FirstOfType(urls, types) ==
    LET hits == {i \in DOMAIN urls : urls[i].packagetype \in types}
    IN  IF hits = {} THEN 0 ELSE CHOOSE i \in hits : \A j \in hits : i <= j

\* mutant: one pass that takes the first entry of any accepted type
SelectFirstListed(urls) == FirstOfType(urls, {"sdist", "bdist_wheel", "bdist_egg"})

SelectDistribution(urls) ==
    LET s == FirstOfType(urls, {"sdist"})
    IN  IF s # 0 /\ urls[s].url # <<>> THEN s
        ELSE FirstOfType(urls, {"bdist_wheel", "bdist_egg"})

\* ------------------------------------------------------------- file system
\* The workspace tree: a set of [path, isdir] entries.
TempDir    == << <<"pypi_installer_">> >>
ExtractDir == Append(TempDir, <<"extracted">>)
OrigDir    == << <<"cwd">> >>        \* working directory the process starts in

Entry(p, d) == [path |-> p, isdir |-> d]

IsPrefix(p, q) == Len(p) <= Len(q) /\ SubSeq(q, 1, Len(p)) = p

Exists(tree, p) == \E e \in tree : e.path = p
IsDir(tree, p)  == Entry(p, TRUE) \in tree

\* os.listdir(d): the names of the entries directly under d
ListDir(tree, d) ==
    {e.path[Len(d) + 1] : e \in {x \in tree : IsPrefix(d, x.path) /\ Len(x.path) = Len(d) + 1}}

\* re-root the entries of an archive or repository under directory d
Under(d, content) == {Entry(d \o e.path, e.isdir) : e \in content}

\* ------------------------------------------------------ environment inputs
\* What the outside world can answer.  These are inputs, not program code.
PackageTypes == {"sdist", "bdist_wheel", "bdist_egg", "bdist_wininst"}

Extension(t) ==
    CASE t = "sdist"       -> ".tar.gz"
      [] t = "bdist_wheel" -> ".whl"
      [] t = "bdist_egg"   -> ".egg"
      [] OTHER             -> ".exe"

UrlNames == <<"u1", "u2", "u3", "u4">>

\* url_info entry number i of a response, of packaging type t
UrlInfo(t, i) ==
    [packagetype |-> t, url |-> <<UrlNames[i]>>, filename |-> <<"pkg", Extension(t)>>]

\* every 'urls' array of at most MaxUrls entries
UrlsPool ==
    UNION {{[i \in 1..n |-> UrlInfo(ts[i], i)] : ts \in [1..n -> PackageTypes]} : n \in 0..MaxUrls}

\* projects the registry knows; a lookup of any other name fails
RegisteredProjects == {<<"requests">>, <<"foo">>}

\* top-level directory an sdist of project pkg wraps its files in
WrapDir(pkg) == pkg \o <<"-1.0">>

Wrapped(pkg, files) ==
    {Entry(<<WrapDir(pkg)>>, TRUE)} \cup {Entry(<<WrapDir(pkg), f>>, FALSE) : f \in files}

Flat(files) == {Entry(<<f>>, FALSE) : f \in files}

\* contents an archive of project pkg may have
Archives(pkg) ==
    { Wrapped(pkg, {<<"pyproject.toml">>, <<"setup.py">>}),
      Wrapped(pkg, {<<"requirements.txt">>}) \cup
          {Entry(<<WrapDir(pkg), <<"requirements">> >>, TRUE),
           Entry(<<WrapDir(pkg), <<"requirements">>, <<"production.txt">> >>, FALSE)},
      Flat({<<"setup.py">>, <<"requirements.txt">>}),
      Flat({<<"module.py">>}) }

\* what a failed extraction may leave behind
PartialArchives(pkg) == {{}, {Entry(<<WrapDir(pkg)>>, TRUE)}}

\* the dependency lists the regular expressions of install_dependencies find
\* in the two files a source tree may hold
PyprojectDeps == << <<"dep_a">>, <<"dep_b">> >>
SetupPyDeps   == << <<"dep_c">> >>

\* a cloned repository's tree
RepoTree == {Entry(<< <<".git">> >>, TRUE), Entry(<< <<"setup.py">> >>, FALSE)}

GitUrl    == <<"https://", "github.com", "/", "x", "/", "y", ".git">>
GitLabUrl == <<"https://", "gitlab.com", "/", "x", "/", "z">>

LinePool ==
    { <<" ", "#", "c", "\n">>,
      <<"requests", "==", "2.31.0", "\n">>,
      <<"foo", "\n">>,
      <<"https://", "example.org", "/", "pkg", "\n">>,
      GitLabUrl \o <<" ", "--branch=", "main", " ", "-t=", "v1", " ", "-c=", "abc123">> }

\* the manifest of the specification's scenario
ExampleManifest ==
    << <<"#", " ", "comment", "\n">>,
       <<"\n">>,
       <<"requests", "==", "2.31.0", "\n">>,
       GitUrl \o <<" ", "--branch=", "main", "\n">> >>

Manifests ==
    UNION {[1..n -> LinePool] : n \in 0..MaxLines} \cup {ExampleManifest}

\* command lines: how many positionals, which source options, which refs
ArgvPool ==
    [positionals : 0..2,
     opts : SUBSET {"-r", "-l", "-m", "--git"},
     refs : SUBSET {"--branch", "--tag", "--commit"}]

\* -------------------------------------------------------------------- state
VARIABLES
    pc,            \* position of the process
    argv,          \* the command line
    args,          \* the namespace parse_args returns
    fs,            \* the workspace tree (empty: temp_dir does not exist)
    cwd,           \* os.getcwd()
    cwd_saved,     \* the original_dir values of the active try/finally blocks
    manifest,      \* lines read by install_from_file
    line_num,      \* line the batch loop is at
    dispatched,    \* <<line_num, source_info>> of every entry dispatched
    outcomes,      \* how each dispatched entry ended: "ok", "fail", "raised"
    request,       \* the source_info / request being processed
    package_info,  \* result of get_package_info
    archive_path,  \* result of download_source
    archive,       \* what the archive at archive_path unpacked to
    source_dir,    \* result of extract_source / clone_git_repository
    todo,          \* dependency installs install_dependencies has yet to attempt
    deps_result,   \* what install_dependencies returned
    cmds,          \* external commands and network calls of the current request
    result,        \* what run returned
    exc,           \* exception propagating out of run
    exit_code,     \* exit status of the process
    logger,           \* records logged since the current request began
    build_rpm,     \* self.build_rpm of src/misc/pypi_installer.py
    rpm_build_dir  \* self.rpm_build_dir of src/misc/pypi_installer.py

vars == <<pc, argv, args, fs, cwd, cwd_saved, manifest, line_num, dispatched,
          outcomes, request, package_info, archive_path, archive, source_dir,
          todo, deps_result, cmds, result, exc, exit_code, logger, build_rpm,
          rpm_build_dir>>

\* the fields only src/misc/pypi_installer.py has
rpm_vars == <<build_rpm, rpm_build_dir>>

NoArgs == [package |-> None, version |-> None, requirements |-> None,
           list_file |-> None, mixed_sources |-> None, git_url |-> None,
           branch |-> None, tag |-> None, commit |-> None]

NoInfo == [ok |-> FALSE, urls |-> <<>>]

\* the timeout the call of command c is given: no call of subprocess.run,
\* urlopen or urlretrieve passes one
Timeout(c) == None

\* an external command or network call: what was called, with which
\* arguments, how it ended, and the timeout it was given
Cmd(c, a, o) == [cmd |-> c, a |-> a, out |-> o, timeout |-> Timeout(c)]

\* a log record: its level, its message, the manifest line number its text
\* carries (0: none) and the command whose captured stderr/stdout its text
\* carries ("none": none)
Rec(level, msg, line, output) ==
    [level |-> level, msg |-> msg, line |-> line, output |-> output]

Emit(records) == logger' = logger \o records

Init ==
    /\ pc = "main"
    /\ argv \in ArgvPool
    /\ args = NoArgs
    /\ fs = {}
    /\ cwd = OrigDir
    /\ cwd_saved = <<>>
    /\ manifest = <<>>
    /\ line_num = 0
    /\ dispatched = <<>>
    /\ outcomes = <<>>
    /\ request = SkipInfo
    /\ package_info = NoInfo
    /\ archive_path = None
    /\ archive = {}
    /\ source_dir = None
    /\ todo = <<>>
    /\ deps_result = "none"
    /\ cmds = <<>>
    /\ result = "none"
    /\ exc = "none"
    /\ exit_code = -1
    /\ logger = <<>>
    /\ build_rpm = FALSE
    /\ rpm_build_dir = None

\* ----------------------------------------------------------------- main
\* parser.parse_args(): positionals fill package then version; the source
\* group (package, -r, -l, -m, --git) is mutually exclusive and required
ParseArgs(av) ==
    [package       |-> IF av.positionals >= 1 THEN <<"requests">> ELSE None,
     version       |-> IF av.positionals >= 2 THEN <<"2.31.0">> ELSE None,
     requirements  |-> IF "-r" \in av.opts THEN <<"requirements.txt">> ELSE None,
     list_file     |-> IF "-l" \in av.opts THEN <<"packages.txt">> ELSE None,
     mixed_sources |-> IF "-m" \in av.opts THEN <<"mixed_sources.txt">> ELSE None,
     git_url       |-> IF "--git" \in av.opts THEN GitUrl ELSE None,
     branch        |-> IF "--branch" \in av.refs THEN <<"main">> ELSE None,
     tag           |-> IF "--tag" \in av.refs THEN <<"v1">> ELSE None,
     commit        |-> IF "--commit" \in av.refs THEN <<"abc123">> ELSE None]

GroupCount(a) ==
    Cardinality({k \in {"package", "requirements", "list_file", "mixed_sources", "git_url"} :
                     a[k] # None})

Truthy(refs) == Cardinality({i \in DOMAIN refs : refs[i] # None})

\* mutant: the else branch of lines 657-659 left out
ArgsRejectedGitOnly(a) ==
    \/ GroupCount(a) # 1
    \/ /\ a.git_url # None
       /\ \/ a.version # None
          \/ Truthy(<<a.branch, a.tag, a.commit>>) > 1

\* the checks of main that end in parser.error
ArgsRejected(a) ==
    \/ GroupCount(a) # 1
    \/ /\ a.git_url # None
       /\ \/ a.version # None
          \/ Truthy(<<a.branch, a.tag, a.commit>>) > 1
    \/ /\ a.git_url = None
       /\ \E r \in {a.branch, a.tag, a.commit} : r # None

Stop(code) ==
    /\ pc' = "exit"
    /\ exit_code' = code

main ==
    /\ pc = "main"
    /\ LET a == ParseArgs(argv) IN
       \/ /\ ArgsRejected(a)                    \* parser.error: exit status 2
          /\ Stop(2)
          /\ args' = a
          /\ UNCHANGED logger
       \/ /\ ~ArgsRejected(a)
          /\ args' = a
          /\ \E is_root \in BOOLEAN :           \* __init__: os.geteuid() != 0
                IF is_root THEN pc' = "run" /\ UNCHANGED <<exit_code, logger>>
                ELSE /\ Stop(1)
                     /\ Emit(<<Rec("error", "This script must be run as root", 0, "none")>>)
    /\ UNCHANGED <<argv, fs, cwd, cwd_saved, manifest, line_num, dispatched, outcomes,
                   request, package_info, archive_path, archive, source_dir,
                   todo, deps_result, cmds, result, exc>>
    /\ UNCHANGED rpm_vars

\* ------------------------------------------------------------------ run
\* run returns value v: the finally clause is next
Return(v) ==
    /\ pc' = "finally"
    /\ result' = v

\* tempfile.mkdtemp
run ==
    /\ pc = "run"
    /\ fs' = {Entry(TempDir, TRUE)}
    /\ pc' = "check_dependencies"
    /\ UNCHANGED <<argv, args, cwd, cwd_saved, manifest, line_num, dispatched, outcomes,
                   request, package_info, archive_path, archive, source_dir,
                   todo, deps_result, cmds, result, exc, exit_code>>
    /\ UNCHANGED logger
    /\ UNCHANGED rpm_vars

check_dependencies ==
    /\ pc = "check_dependencies"
    /\ \E ok \in BOOLEAN :
          IF ok THEN pc' = "dispatch" /\ UNCHANGED <<result, logger>>
          ELSE /\ Return("False")
               /\ Emit(<<Rec("error", "Failed to install dependencies", 0, "dnf install"),
                         Rec("error", "Failed to install system dependencies", 0, "none")>>)
    /\ UNCHANGED <<argv, args, fs, cwd, cwd_saved, manifest, line_num, dispatched,
                   outcomes, request, package_info, archive_path, archive,
                   source_dir, todo, deps_result, cmds, exc, exit_code>>
    /\ UNCHANGED rpm_vars

\* the if/elif chain of run
run_dispatch ==
    /\ pc = "dispatch"
    /\ IF args.requirements # None \/ args.list_file # None \/ args.mixed_sources # None
       THEN pc' = "install_from_file" /\ UNCHANGED <<request, result, logger>>
       ELSE IF args.git_url # None
       THEN /\ pc' = "clone_git_repository"
            /\ request' = [SkipInfo EXCEPT !.type = "git", !.url = args.git_url,
                              !.branch = args.branch, !.tag = args.tag,
                              !.commit = args.commit]
            /\ UNCHANGED <<result, logger>>
       ELSE IF args.package # None
       THEN /\ pc' = "get_package_info"
            /\ request' = [SkipInfo EXCEPT !.type = "pypi", !.package = args.package,
                              !.version = args.version]
            /\ UNCHANGED <<result, logger>>
       ELSE /\ Return("False")
            /\ Emit(<<Rec("error", "No package or source specified", 0, "none")>>)
            /\ UNCHANGED request
    /\ UNCHANGED <<argv, args, fs, cwd, cwd_saved, manifest, line_num, dispatched,
                   outcomes, package_info, archive_path, archive, source_dir,
                   todo, deps_result, cmds, exc, exit_code>>
    /\ UNCHANGED rpm_vars

\* cleanup, in the finally clause of run
cleanup ==
    /\ pc = "finally"
    /\ fs' = IF Exists(fs, TempDir) THEN {} ELSE fs
    /\ pc' = "returned"
    /\ UNCHANGED <<argv, args, cwd, cwd_saved, manifest, line_num, dispatched, outcomes,
                   request, package_info, archive_path, archive, source_dir,
                   todo, deps_result, cmds, result, exc, exit_code>>
    /\ UNCHANGED logger
    /\ UNCHANGED rpm_vars

\* sys.exit(0 if success else 1), or the interpreter ending on the exception
\* that left run
ExitStatus ==
    CASE exc = "KeyboardInterrupt" -> 130
      [] exc \in {"SystemExit", "AttributeError"} -> 1
      [] OTHER -> IF result = "True" THEN 0 ELSE 1

main_exit ==
    /\ pc = "returned"
    /\ Stop(ExitStatus)
    /\ UNCHANGED <<argv, args, fs, cwd, cwd_saved, manifest, line_num, dispatched,
                   outcomes, request, package_info, archive_path, archive,
                   source_dir, todo, deps_result, cmds, result, exc>>
    /\ UNCHANGED logger
    /\ UNCHANGED rpm_vars

\* ---------------------------------------------------- per-request plumbing
InBatch ==
    args.requirements # None \/ args.list_file # None \/ args.mixed_sources # None

Locals(pi, ap, ar, sd, td, dr) ==
    /\ package_info' = pi
    /\ archive_path' = ap
    /\ archive' = ar
    /\ source_dir' = sd
    /\ todo' = td
    /\ deps_result' = dr

ClearLocals == Locals(NoInfo, None, {}, None, <<>>, "none")

\* the request goes on to its next step
Continue(next) ==
    /\ pc' = next
    /\ UNCHANGED <<outcomes, result, exc>>

\* mutant: the batch loop without its try/except
EntryEndUncaught(o) ==
    /\ outcomes' = Append(outcomes, o)
    /\ IF o = "raised" THEN pc' = "finally" /\ exc' = "AttributeError" /\ UNCHANGED result
       ELSE IF InBatch THEN pc' = "loop" /\ UNCHANGED <<result, exc>>
       ELSE Return(IF o = "ok" THEN "True" ELSE "False") /\ UNCHANGED exc

\* mutant: run ignoring what the install method returned
EntryEndSwallowed(o) ==
    /\ outcomes' = Append(outcomes, o)
    /\ IF InBatch THEN pc' = "loop" /\ UNCHANGED <<result, exc>>
       ELSE IF o \in {"ok", "fail"} THEN Return("True") /\ UNCHANGED exc
       ELSE pc' = "finally" /\ exc' = "AttributeError" /\ UNCHANGED result

\* install_single_package / install_git_package ends: o = "ok" (returned
\* True), "fail" (returned False) or "raised" (an Exception left it).  In the
\* batch loop the return value is dropped and an Exception is caught and
\* logged (lines 548-560); in run a False is returned and an Exception
\* propagates (lines 587-599).
EntryEnd(o) ==
    /\ outcomes' = Append(outcomes, o)
    /\ IF InBatch THEN pc' = "loop" /\ UNCHANGED <<result, exc>>
       ELSE IF o = "ok" THEN Return("True") /\ UNCHANGED exc
       ELSE IF o = "fail" THEN Return("False") /\ UNCHANGED exc
       ELSE pc' = "finally" /\ exc' = "AttributeError" /\ UNCHANGED result

\* -------------------------------------------------------- install_from_file
install_from_file ==
    /\ pc = "install_from_file"
    /\ \/ \E m \in Manifests :                 \* f.readlines()
             /\ manifest' = m
             /\ pc' = "loop"
             /\ UNCHANGED <<result, logger>>
       \/ /\ Return("True")                    \* open fails: logged, run goes on
          /\ Emit(<<Rec("error", "Failed to read file", 0, "none")>>)
          /\ UNCHANGED manifest
    /\ UNCHANGED <<argv, args, fs, cwd, cwd_saved, line_num, dispatched, outcomes,
                   request, package_info, archive_path, archive, source_dir,
                   todo, deps_result, cmds, exc, exit_code>>
    /\ UNCHANGED rpm_vars

\* positions at which a step of a request is about to run
StepPositions ==
    {"get_package_info", "download_source", "extract_source",
     "build_and_install_package", "install_dependencies", "install",
     "clone_git_repository", "checkout", "install_git_package"}

\* mutant: the next line dispatched without waiting for the current entry
batch_line_overlapping ==
    /\ pc \in {"loop"} \cup StepPositions
    /\ line_num < Len(manifest)
    /\ LET n    == line_num + 1
           info == parse_source_line(manifest[n])
       IN  /\ line_num' = n
           /\ request' = info                  \* source_info
           /\ cmds' = <<>>
           /\ IF info.type = "skip"
              THEN logger' = <<>> /\ UNCHANGED <<pc, dispatched>>
              ELSE /\ dispatched' = Append(dispatched, <<n, info>>)
                   /\ logger' = <<Rec("info", "Line: Installing", n, "none")>>
                   /\ pc' = IF info.type = "pypi" THEN "get_package_info"
                            ELSE "clone_git_repository"
    /\ ClearLocals
    /\ UNCHANGED <<argv, args, fs, cwd, cwd_saved, manifest, outcomes, result, exc,
                   exit_code>>
    /\ UNCHANGED rpm_vars

\* one iteration of the loop over the lines, up to the call it makes
batch_line ==
    /\ pc = "loop"
    /\ line_num < Len(manifest)
    /\ LET n    == line_num + 1
           info == parse_source_line(manifest[n])
       IN  /\ line_num' = n
           /\ request' = info                  \* source_info
           /\ cmds' = <<>>
           /\ IF info.type = "skip"
              THEN logger' = <<>> /\ UNCHANGED <<pc, dispatched>>
              ELSE /\ dispatched' = Append(dispatched, <<n, info>>)
                   /\ logger' = <<Rec("info", "Line: Installing", n, "none")>>
                   /\ pc' = IF info.type = "pypi" THEN "get_package_info"
                            ELSE "clone_git_repository"
    /\ ClearLocals
    /\ UNCHANGED <<argv, args, fs, cwd, cwd_saved, manifest, outcomes, result, exc,
                   exit_code>>
    /\ UNCHANGED rpm_vars

\* mutant: run failing when an entry of the batch failed
BatchResultEscalated(outs) ==
    IF \E i \in DOMAIN outs : outs[i] # "ok" THEN "False" ELSE "True"

\* what run returns after install_from_file has returned (lines 581-586,
\* 604-605), given how the entries ended: install_from_file returns nothing
BatchResult(outs) == "True"

\* the loop is over: install_from_file returns, run logs success
batch_done ==
    /\ pc = "loop"
    /\ line_num = Len(manifest)
    /\ Return(BatchResult(outcomes))
    /\ request' = SkipInfo
    /\ cmds' = <<>>
    /\ logger' = <<>>
    /\ ClearLocals
    /\ UNCHANGED <<argv, args, fs, cwd, cwd_saved, manifest, line_num, dispatched,
                   outcomes, exc, exit_code>>
    /\ UNCHANGED rpm_vars

\* --------------------------------------------------- install_single_package
get_package_info ==
    /\ pc = "get_package_info"
    /\ \E resp \in {NoInfo} \cup
                   (IF request.package \in RegisteredProjects
                    THEN {[ok |-> TRUE, urls |-> u] : u \in UrlsPool} ELSE {}) :
          /\ cmds' = Append(cmds, Cmd("urlopen", <<request.package, request.version>>,
                                      IF resp.ok THEN "ok" ELSE "raise"))
          /\ IF resp.ok
             THEN /\ Continue("download_source")
                  /\ Locals(resp, None, {}, None, <<>>, "none")
                  /\ UNCHANGED logger
             ELSE /\ EntryEnd("fail")
                  /\ ClearLocals
                  /\ Emit(<<Rec("error", "Failed to fetch package info", 0, "none"),
                            Rec("error", "Failed to get package info for", 0, "none")>>)
    /\ UNCHANGED <<argv, args, fs, cwd, cwd_saved, manifest, line_num, dispatched,
                   request, exit_code>>
    /\ UNCHANGED rpm_vars

download_source ==
    /\ pc = "download_source"
    /\ LET i == SelectDistribution(package_info.urls) IN
       IF i = 0
       THEN /\ EntryEnd("fail")
            /\ Emit(<<Rec("error", "No suitable distribution found", 0, "none")>>)
            /\ Locals(package_info, None, {}, None, <<>>, "none")
            /\ UNCHANGED <<fs, cmds>>
       ELSE LET u    == package_info.urls[i]
                path == Append(TempDir, u.filename)
            IN  \E ok \in BOOLEAN :
                   /\ cmds' = Append(cmds, Cmd("urlretrieve", <<u.url, u.filename>>,
                                               IF ok THEN "ok" ELSE "raise"))
                   /\ IF ok
                      THEN /\ fs' = fs \cup {Entry(path, FALSE)}
                           /\ Locals(package_info, path, {}, None, <<>>, "none")
                           /\ Continue("extract_source")
                           /\ UNCHANGED logger
                      ELSE /\ EntryEnd("fail")
                           /\ Emit(<<Rec("error", "Failed to download package", 0, "none")>>)
                           /\ Locals(package_info, None, {}, None, <<>>, "none")
                           /\ UNCHANGED fs
    /\ UNCHANGED <<argv, args, cwd, cwd_saved, manifest, line_num, dispatched,
                   request, exit_code>>
    /\ UNCHANGED rpm_vars

\* lines 287-292: the directory extract_source returns, given the tree after
\* extraction
ResolveSourceRoot(tree) ==
    LET extracted_contents == ListDir(tree, ExtractDir) IN
    IF Cardinality(extracted_contents) = 1
    THEN Append(ExtractDir, CHOOSE n \in extracted_contents : TRUE)
    ELSE ExtractDir

SupportedArchive(filename) ==
    \/ EndsWith(filename, ".tar.gz")
    \/ EndsWith(filename, ".tar.bz2")
    \/ EndsWith(filename, ".zip")

extract_source ==
    /\ pc = "extract_source"
    /\ LET made == fs \cup {Entry(ExtractDir, TRUE)}      \* os.makedirs
       IN
       IF SupportedArchive(archive_path[Len(archive_path)])
       THEN \/ \E content \in Archives(request.package) :  \* extractall succeeds
                 LET after == made \cup Under(ExtractDir, content) IN
                 /\ fs' = after
                 /\ Locals(NoInfo, archive_path, content, ResolveSourceRoot(after),
                           <<>>, "none")
                 /\ Continue("build_and_install_package")
                 /\ UNCHANGED logger
            \/ \E part \in PartialArchives(request.package) :  \* extractall raises
                 /\ fs' = made \cup Under(ExtractDir, part)
                 /\ ClearLocals
                 /\ EntryEnd("fail")
                 /\ Emit(<<Rec("error", "Failed to extract archive", 0, "none")>>)
       ELSE /\ fs' = made
            /\ ClearLocals
            /\ EntryEnd("fail")
            /\ Emit(<<Rec("error", "Unsupported archive format", 0, "none")>>)
    /\ UNCHANGED <<argv, args, cwd, cwd_saved, manifest, line_num, dispatched,
                   request, cmds, exit_code>>
    /\ UNCHANGED rpm_vars

\* ------------------------------------------------------ install_dependencies
RequirementsFiles ==
    << << <<"requirements.txt">> >>,
       << <<"requirements">>, <<"base.txt">> >>,
       << <<"requirements">>, <<"production.txt">> >> >>

PendingInstall(kind, arg) == [kind |-> kind, arg |-> arg]

\* mutant: the dependency list installed before the requirement files
DepPlanListFirst(tree, dir) ==
    LET reqs == SelectSeq(RequirementsFiles, LAMBDA f : Exists(tree, dir \o f))
        deps == IF Exists(tree, Append(dir, <<"pyproject.toml">>)) THEN PyprojectDeps
                ELSE IF Exists(tree, Append(dir, <<"setup.py">>)) THEN SetupPyDeps
                ELSE <<>>
    IN  [i \in 1..Len(deps) |-> PendingInstall("pip install", deps[i])]
        \o [i \in 1..Len(reqs) |-> PendingInstall("pip install -r", reqs[i][Len(reqs[i])])]

\* the installs install_dependencies attempts in directory dir, in order:
\* every requirement file that exists, then the dependency list of
\* pyproject.toml, or else (elif) that of setup.py
DepPlan(tree, dir) ==
    LET reqs == SelectSeq(RequirementsFiles, LAMBDA f : Exists(tree, dir \o f))
        deps == IF Exists(tree, Append(dir, <<"pyproject.toml">>)) THEN PyprojectDeps
                ELSE IF Exists(tree, Append(dir, <<"setup.py">>)) THEN SetupPyDeps
                ELSE <<>>
    IN  [i \in 1..Len(reqs) |-> PendingInstall("pip install -r", reqs[i][Len(reqs[i])])]
        \o [i \in 1..Len(deps) |-> PendingInstall("pip install", deps[i])]

\* mutant: a failed or raising install makes the step report failure
DepsReturnValueStrict(log) ==
    IF \E i \in DOMAIN log : log[i].cmd \in {"pip install", "pip install -r"} /\ log[i].out # "ok"
    THEN "False" ELSE "True"

\* what install_dependencies returns (lines 379 and 383), given the log of
\* the commands it ran
DepsReturnValue(log) == "True"

\* build_and_install_package up to and including the entry of
\* install_dependencies: both chdir into source_dir
build_and_install_package ==
    /\ pc = "build_and_install_package"
    /\ IF IsDir(fs, source_dir)
       THEN /\ cwd' = source_dir
            /\ cwd_saved' = cwd_saved \o <<cwd, source_dir>>
            /\ Locals(NoInfo, archive_path, {}, source_dir, DepPlan(fs, source_dir), "none")
            /\ Continue("install_dependencies")
            /\ UNCHANGED logger
       ELSE /\ ClearLocals                     \* os.chdir raises: except, return False
            /\ EntryEnd("fail")
            /\ Emit(<<Rec("error", "Installation error", 0, "none")>>)
            /\ UNCHANGED <<cwd, cwd_saved>>
    /\ UNCHANGED <<argv, args, fs, manifest, line_num, dispatched, request, cmds,
                   exit_code>>
    /\ UNCHANGED rpm_vars

\* what install_dependencies logs for an install of the given kind that ended
\* as out (lines 319, 346-348, 375-377, 382)
DepRecords(kind, out) ==
    CASE out = "ok"   -> <<>>
      [] out = "fail" -> <<Rec("warning", "Failed to install", 0, kind)>>
      [] OTHER        -> IF kind = "pip install -r"
                         THEN <<Rec("error", "Error installing dependencies", 0, "none")>>
                         ELSE <<Rec("warning", "Error parsing dependencies", 0, "none")>>

\* one install command of install_dependencies; when subprocess.run raises,
\* the except clauses end the step
install_dependencies ==
    /\ pc = "install_dependencies"
    /\ todo # <<>>
    /\ \E out \in {"ok", "fail", "raise"} :
          /\ cmds' = Append(cmds, Cmd(Head(todo).kind, <<Head(todo).arg>>, out))
          /\ todo' = IF out = "raise" THEN <<>> ELSE Tail(todo)
          /\ Emit(DepRecords(Head(todo).kind, out))
    /\ UNCHANGED <<argv, args, fs, cwd, cwd_saved, manifest, line_num, dispatched,
                   outcomes, request, package_info, archive_path, archive,
                   source_dir, deps_result, result, exc, exit_code, pc>>
    /\ UNCHANGED rpm_vars

\* install_dependencies returns; its finally clause restores the directory
install_dependencies_return ==
    /\ pc = "install_dependencies"
    /\ todo = <<>>
    /\ deps_result' = DepsReturnValue(cmds)
    /\ cwd' = cwd_saved[Len(cwd_saved)]
    /\ cwd_saved' = SubSeq(cwd_saved, 1, Len(cwd_saved) - 1)
    /\ Continue("install")
    /\ UNCHANGED <<argv, args, fs, manifest, line_num, dispatched, request,
                   package_info, archive_path, archive, source_dir, todo, cmds,
                   exit_code>>
    /\ UNCHANGED logger
    /\ UNCHANGED rpm_vars

\* mutant: the two tests of lines 399 and 404 in the other order
BuildCommandSetupFirst(tree, dir) ==
    IF Exists(tree, Append(dir, <<"setup.py">>)) THEN "setup.py install"
    ELSE IF Exists(tree, Append(dir, <<"pyproject.toml">>)) THEN "pip install ."
    ELSE "none"

\* mutant: pip install run without looking for a build system
BuildCommandAssumed(tree, dir) == "pip install ."

\* lines 398-411: the install command for the tree in directory dir
BuildCommand(tree, dir) ==
    IF Exists(tree, Append(dir, <<"pyproject.toml">>)) THEN "pip install ."
    ELSE IF Exists(tree, Append(dir, <<"setup.py">>)) THEN "setup.py install"
    ELSE "none"

\* whether build_and_install_package goes on to the install command once
\* install_dependencies has returned r (the return value is not looked at)
ProceedsToInstall(r) == TRUE

InstallOpts == << <<"--prefix=/usr/local">>, <<"--root=/">> >>

\* what build_and_install_package logs for install command c that ended as
\* out (lines 417-419, 431)
InstallRecords(c, out) ==
    CASE out = "ok"   -> <<>>
      [] out = "fail" -> <<Rec("error", "Installation failed", 0, c),
                           Rec("error", "Installation stdout", 0, c)>>
      [] OTHER        -> <<Rec("error", "Installation error", 0, "none")>>

\* mutant: build_and_install_package without the os.chdir of its finally clause
install_unrestored ==
    /\ pc = "install"
    /\ LET c == BuildCommand(fs, cwd) IN
       IF c = "none" \/ ~ProceedsToInstall(deps_result)
       THEN /\ EntryEnd("fail")
            /\ Emit(<<Rec("error", "No recognized build system found", 0, "none")>>)
            /\ UNCHANGED cmds
       ELSE \E out \in {"ok", "fail", "raise"} :
               /\ cmds' = Append(cmds, Cmd(c, InstallOpts, out))
                          \o (IF out = "ok" THEN <<Cmd("ldconfig", <<>>, "ok")>> ELSE <<>>)
               /\ Emit(InstallRecords(c, out))
               /\ EntryEnd(IF out = "ok" THEN "ok" ELSE "fail")
    /\ UNCHANGED cwd
    /\ cwd_saved' = SubSeq(cwd_saved, 1, Len(cwd_saved) - 1)
    /\ Locals(NoInfo, None, {}, source_dir, <<>>, deps_result)
    /\ UNCHANGED <<argv, args, fs, manifest, line_num, dispatched, request, exit_code>>
    /\ UNCHANGED rpm_vars

\* the rest of build_and_install_package: choose and run the install command
install ==
    /\ pc = "install"
    /\ LET c == BuildCommand(fs, cwd) IN
       IF c = "none" \/ ~ProceedsToInstall(deps_result)
       THEN /\ EntryEnd("fail")
            /\ Emit(<<Rec("error", "No recognized build system found", 0, "none")>>)
            /\ UNCHANGED cmds
       ELSE \E out \in {"ok", "fail", "raise"} :
               /\ cmds' = Append(cmds, Cmd(c, InstallOpts, out))
                          \o (IF out = "ok" THEN <<Cmd("ldconfig", <<>>, "ok")>> ELSE <<>>)
               /\ Emit(InstallRecords(c, out))
               /\ EntryEnd(IF out = "ok" THEN "ok" ELSE "fail")
    /\ cwd' = cwd_saved[Len(cwd_saved)]                   \* finally: os.chdir
    /\ cwd_saved' = SubSeq(cwd_saved, 1, Len(cwd_saved) - 1)
    /\ Locals(NoInfo, None, {}, source_dir, <<>>, deps_result)
    /\ UNCHANGED <<argv, args, fs, manifest, line_num, dispatched, request, exit_code>>
    /\ UNCHANGED rpm_vars

\* ------------------------------------------------------- install_git_package
\* mutant: the tag checked out by its bare name
CheckoutRefUnqualified(req) ==
    IF req.tag # None THEN req.tag ELSE req.commit

\* the reference clone_git_repository checks out after the clone
CheckoutRef(req) ==
    IF req.tag # None THEN <<"tags/">> \o req.tag ELSE req.commit

\* the arguments of git clone
CloneArgs(req) ==
    LET pu == parse_git_url(req.url) IN
    <<pu[1], pu[2]>> \o (IF req.branch # None THEN << <<"--branch">>, req.branch >> ELSE <<>>)

NeedsCheckout(req) == req.tag # None \/ req.commit # None

\* what clone_git_repository logs for a git command that ended as out
\* (lines 152, 171, 181)
GitRecords(msg, c, out) ==
    CASE out = "ok"   -> <<>>
      [] out = "fail" -> <<Rec("error", msg, 0, c)>>
      [] OTHER        -> <<Rec("error", "Error cloning repository", 0, "none")>>

\* git clone, and the chdir into the clone when a checkout follows
clone_git_repository ==
    /\ pc = "clone_git_repository"
    /\ LET clone_dir == Append(TempDir, parse_git_url(request.url)[2])
           possible  == IF ListDir(fs, clone_dir) # {} THEN {"fail"}
                        ELSE {"ok", "fail", "raise"}
       IN  \E out \in possible :
              /\ cmds' = Append(cmds, Cmd("git clone", CloneArgs(request), out))
              /\ Emit(GitRecords("Failed to clone repository", "git clone", out))
              /\ IF out # "ok"
                 THEN /\ EntryEnd("fail")
                      /\ ClearLocals
                      /\ UNCHANGED <<fs, cwd, cwd_saved>>
                 ELSE /\ fs' = fs \cup {Entry(clone_dir, TRUE)} \cup Under(clone_dir, RepoTree)
                      /\ IF NeedsCheckout(request)
                         THEN /\ cwd' = clone_dir
                              /\ cwd_saved' = Append(cwd_saved, cwd)
                              /\ ClearLocals
                              /\ Continue("checkout")
                         ELSE /\ Locals(NoInfo, None, {}, clone_dir, <<>>, "none")
                              /\ Continue("install_git_package")
                              /\ UNCHANGED <<cwd, cwd_saved>>
    /\ UNCHANGED <<argv, args, manifest, line_num, dispatched, request, exit_code>>
    /\ UNCHANGED rpm_vars

\* mutant: the return code of git checkout not looked at
checkout_unchecked ==
    /\ pc = "checkout"
    /\ \E out \in {"ok", "fail", "raise"} :
          /\ cmds' = Append(cmds, Cmd("git checkout", <<CheckoutRef(request)>>, out))
          /\ Emit(GitRecords("Failed to checkout", "git checkout", out))
          /\ Locals(NoInfo, None, {}, cwd, <<>>, "none")
          /\ Continue("install_git_package")
    /\ cwd' = cwd_saved[Len(cwd_saved)]
    /\ cwd_saved' = SubSeq(cwd_saved, 1, Len(cwd_saved) - 1)
    /\ UNCHANGED <<argv, args, fs, manifest, line_num, dispatched, request, exit_code>>
    /\ UNCHANGED rpm_vars

\* git checkout in the cloned tree; the finally clause restores the directory
checkout ==
    /\ pc = "checkout"
    /\ \E out \in {"ok", "fail", "raise"} :
          /\ cmds' = Append(cmds, Cmd("git checkout", <<CheckoutRef(request)>>, out))
          /\ Emit(GitRecords("Failed to checkout", "git checkout", out))
          /\ IF out = "ok"
             THEN /\ Locals(NoInfo, None, {}, cwd, <<>>, "none")
                  /\ Continue("install_git_package")
             ELSE /\ ClearLocals
                  /\ EntryEnd("fail")
    /\ cwd' = cwd_saved[Len(cwd_saved)]
    /\ cwd_saved' = SubSeq(cwd_saved, 1, Len(cwd_saved) - 1)
    /\ UNCHANGED <<argv, args, fs, manifest, line_num, dispatched, request, exit_code>>
    /\ UNCHANGED rpm_vars

\* install_git_package after the clone: get_package_name_from_source reads
\* the tree, then self.build_package is looked up; the class defines no
\* build_package, so an AttributeError leaves install_git_package
install_git_package ==
    /\ pc = "install_git_package"
    /\ EntryEnd("raised")
    /\ Emit(IF InBatch THEN <<Rec("error", "Error processing line", line_num, "none")>>
            ELSE <<>>)
    /\ ClearLocals
    /\ UNCHANGED <<argv, args, fs, cwd, cwd_saved, manifest, line_num, dispatched,
                   request, cmds, exit_code>>
    /\ UNCHANGED rpm_vars

\* ------------------------------------------------- KeyboardInterrupt, SystemExit
\* positions at which run is inside its try block
InsideTry ==
    {"check_dependencies", "dispatch", "install_from_file", "loop", "get_package_info",
     "download_source", "extract_source", "build_and_install_package",
     "install_dependencies", "install", "clone_git_repository", "checkout",
     "install_git_package", "blocked"}

\* mutant: cleanup called after the try block instead of in its finally clause
UnwindPastFinally == "returned"

\* where a BaseException raised inside the try block of run goes: no
\* "except Exception" catches it, every finally clause on the way restores
\* its original_dir, and the finally clause of run is next
Unwind == "finally"

interrupt ==
    /\ pc \in InsideTry
    /\ \E kind \in {"KeyboardInterrupt", "SystemExit"} : exc' = kind
    /\ cwd' = IF cwd_saved # <<>> THEN cwd_saved[1] ELSE cwd
    /\ cwd_saved' = <<>>
    /\ pc' = Unwind
    /\ ClearLocals                             \* the frames are gone,
    /\ manifest' = <<>>                        \* and the record of the requests
    /\ line_num' = 0                           \* ends with them
    /\ request' = SkipInfo
    /\ dispatched' = <<>>
    /\ outcomes' = <<>>
    /\ cmds' = <<>>
    /\ logger' = <<>>
    /\ UNCHANGED <<argv, args, fs, result, exit_code>>
    /\ UNCHANGED rpm_vars

\* the external command or network call the process is about to make,
\* "none" when the step it is at makes none
PendingCall ==
    CASE pc = "check_dependencies"    -> "rpm -q"
      [] pc = "get_package_info"      -> "urlopen"
      [] pc = "download_source"       ->
            IF SelectDistribution(package_info.urls) # 0 THEN "urlretrieve" ELSE "none"
      [] pc = "clone_git_repository"  -> "git clone"
      [] pc = "checkout"              -> "git checkout"
      [] pc = "install_dependencies"  -> IF todo # <<>> THEN Head(todo).kind ELSE "none"
      [] pc = "install"               -> BuildCommand(fs, cwd)
      [] OTHER                        -> "none"

\* the command or the server never answers: a call without timeout waits
\* for it, and the process stays in that call
never_answers ==
    /\ PendingCall # "none"
    /\ Timeout(PendingCall) = None
    /\ pc' = "blocked"
    /\ cmds' = <<>>
    /\ ClearLocals                             \* nothing the process holds
    /\ manifest' = <<>>                        \* is looked at again
    /\ line_num' = 0
    /\ request' = SkipInfo
    /\ dispatched' = <<>>
    /\ outcomes' = <<>>
    /\ logger' = <<>>
    /\ UNCHANGED <<argv, args, fs, cwd, cwd_saved, result, exc, exit_code>>
    /\ UNCHANGED rpm_vars

\* ------------------------------------------------------------ specification
Next ==
    \/ main
    \/ run
    \/ check_dependencies
    \/ run_dispatch
    \/ install_from_file
    \/ batch_line
    \/ batch_done
    \/ get_package_info
    \/ download_source
    \/ extract_source
    \/ build_and_install_package
    \/ install_dependencies
    \/ install_dependencies_return
    \/ install
    \/ clone_git_repository
    \/ checkout
    \/ install_git_package
    \/ never_answers
    \/ interrupt
    \/ cleanup
    \/ main_exit

Spec == Init /\ [][Next]_vars

TypeOK ==
    /\ pc \in InsideTry \cup {"main", "run", "finally", "returned", "exit"}
    /\ result \in {"none", "True", "False"}
    /\ exc \in {"none", "KeyboardInterrupt", "SystemExit", "AttributeError"}

\* =================================================================== claims
\* a manifest line that is blank, or whose first non-blank lexeme is "#"
BlankOrComment(raw) ==
    \/ \A i \in DOMAIN raw : raw[i] \in Whitespace
    \/ \E i \in DOMAIN raw :
          /\ raw[i] = "#"
          /\ \A j \in 1..(i - 1) : raw[j] \in Whitespace

\* the lines among the first n of the manifest that are to be dispatched
EntryLines(n) == {i \in 1..n : ~BlankOrComment(manifest[i])}

\* run has left its try block without a KeyboardInterrupt or SystemExit
RanToEnd == pc \in {"finally", "returned", "exit"} /\ exc \notin {"KeyboardInterrupt", "SystemExit"}

\* C1: in a batch, the entries dispatched so far are as many as the
\* non-blank, non-comment lines read so far; when the batch has run to its
\* end every line has been read; and no exception raised while a line is
\* processed leaves the loop.
C1_DispatchCount ==
    InBatch =>
        /\ Len(dispatched) = Cardinality(EntryLines(line_num))
        /\ exc # "AttributeError"
        /\ RanToEnd => line_num = Len(manifest)

\* a batch that went through the scenario manifest, whose second entry raised
C1_Witness ==
    /\ pc = "exit"
    /\ manifest = ExampleManifest
    /\ Len(dispatched) = 2
    /\ outcomes[2] = "raised"

\* C2: in a batch that ran to its end, after every entry that returned a
\* failure or raised, each later non-blank, non-comment line was dispatched,
\* and the entries were dispatched in manifest order.
C2_FailureDoesNotEndBatch ==
    (InBatch /\ RanToEnd) =>
        /\ Len(outcomes) = Len(dispatched)
        /\ \A k \in DOMAIN outcomes :
              outcomes[k] # "ok" =>
                 \A i \in (dispatched[k][1] + 1)..Len(manifest) :
                    ~BlankOrComment(manifest[i]) =>
                       \E j \in (k + 1)..Len(dispatched) : dispatched[j][1] = i
        /\ \A j, k \in DOMAIN dispatched : j < k => dispatched[j][1] < dispatched[k][1]

\* a batch whose first entry raised and whose second entry returned a failure
C2_Witness ==
    /\ InBatch
    /\ pc = "exit"
    /\ outcomes = <<"raised", "fail">>

\* the references a request sets
RefCount(req) == Truthy(<<req.branch, req.tag, req.commit>>)

\* C3: a version-control request that sets more than one of branch, tag and
\* commit is rejected before any git clone or network activity: no command is
\* ever issued for it, whether it comes from the command line or from a
\* manifest line.
C3_MultiRefRejected ==
    /\ (request.type = "git" /\ RefCount(request) > 1) => cmds = <<>>
    /\ (args.git_url # None /\ RefCount(args) > 1) => (pc = "exit" /\ fs = {})

\* the part of C3 the command line keeps: --git with several references ends
\* in parser.error before the workspace exists
C3_CommandLineRejected ==
    (args.git_url # None /\ RefCount(args) > 1) => (pc = "exit" /\ exit_code = 2 /\ fs = {})

\* C4: when the process has exited, the workspace directory run created does
\* not exist, whether run returned, a SystemExit or a KeyboardInterrupt left
\* it.
C4_WorkspaceRemoved ==
    pc = "exit" => ~Exists(fs, TempDir)

\* the process has exited on a KeyboardInterrupt raised inside run
C4_Witness ==
    /\ pc = "exit"
    /\ exc = "KeyboardInterrupt"
    /\ exit_code = 130

\* the top-level entries of an archive
TopLevel(content) == {e \in content : Len(e.path) = 1}

\* C5: when extract_source has returned a source root, an archive that
\* unpacked to exactly one top-level directory gives that directory, and an
\* archive that unpacked to two or more top-level entries gives the
\* extraction root.
C5_SourceRoot ==
    pc = "build_and_install_package" =>
        LET top == TopLevel(archive) IN
        /\ (Cardinality(top) = 1 /\ \A e \in top : e.isdir) =>
              \E e \in top : source_dir = ExtractDir \o e.path
        /\ Cardinality(top) >= 2 => source_dir = ExtractDir

\* the files of a source tree directory
HasFile(dir, name) == Exists(fs, Append(dir, name))

\* the build of the tree in source_dir has begun and the tree is still there
Building ==
    /\ source_dir # None
    /\ IsDir(fs, source_dir)
    /\ pc \in {"install_dependencies", "install", "loop", "finally"}

\* install_dependencies and the install command have both been gone through
Built == Building /\ pc \in {"loop", "finally"} /\ deps_result = "True"

CmdsNamed(names) == {i \in DOMAIN cmds : cmds[i].cmd \in names}

Range(f) == {f[i] : i \in DOMAIN f}

\* C6: the dialect follows from the files present alone.  With
\* pyproject.toml present (setup.py present or not) no setup.py install
\* command runs, every dependency installed is one of pyproject.toml's list,
\* and a finished build ran pip install of the tree; with setup.py alone the
\* dependencies are those of setup.py and the command is setup.py install.
C6_ModernFirst ==
    Building =>
        /\ HasFile(source_dir, <<"pyproject.toml">>) =>
              /\ CmdsNamed({"setup.py install"}) = {}
              /\ \A i \in CmdsNamed({"pip install"}) : cmds[i].a[1] \in Range(PyprojectDeps)
              /\ \A i \in DOMAIN todo :
                    todo[i].kind = "pip install" => todo[i].arg \in Range(PyprojectDeps)
              /\ Built => CmdsNamed({"pip install ."}) # {}
        /\ (~HasFile(source_dir, <<"pyproject.toml">>) /\ HasFile(source_dir, <<"setup.py">>)) =>
              /\ CmdsNamed({"pip install ."}) = {}
              /\ \A i \in CmdsNamed({"pip install"}) : cmds[i].a[1] \in Range(SetupPyDeps)
              /\ Built => CmdsNamed({"setup.py install"}) # {}

\* a tree with both files was built with pip after its pyproject.toml
\* dependencies were installed
C6_Witness ==
    /\ Built
    /\ HasFile(source_dir, <<"pyproject.toml">>)
    /\ HasFile(source_dir, <<"setup.py">>)
    /\ Cardinality(CmdsNamed({"pip install"})) = Len(PyprojectDeps)
    /\ \E i \in CmdsNamed({"pip install ."}) : cmds[i].out = "ok"

\* smallest member of a non-empty set of numbers
Least(S) == CHOOSE i \in S : \A j \in S : i <= j

\* the entry of urls the claim has download_source select, 0 for none
ClaimedSelection(urls) ==
    LET sdists   == {i \in DOMAIN urls : urls[i].packagetype = "sdist"}
        binaries == {i \in DOMAIN urls : urls[i].packagetype \in {"bdist_wheel", "bdist_egg"}}
    IN  IF sdists # {} THEN Least(sdists)
        ELSE IF binaries # {} THEN Least(binaries)
        ELSE 0

\* C7: once download_source has acted on a metadata response, the one
\* download it attempted is that of the first sdist entry, or of the first
\* bdist_wheel / bdist_egg entry when there is no sdist; when there is
\* neither, the request has failed and nothing was downloaded.
C7_SourcePreferred ==
    (package_info.ok /\ pc # "download_source") =>
        LET urls == package_info.urls
            i    == ClaimedSelection(urls)
        IN  IF i = 0
            THEN /\ CmdsNamed({"urlretrieve"}) = {}
                 /\ archive_path = None
                 /\ outcomes # <<>> /\ outcomes[Len(outcomes)] = "fail"
            ELSE /\ CmdsNamed({"urlretrieve"}) = {Len(cmds)}
                 /\ cmds[Len(cmds)].a = <<urls[i].url, urls[i].filename>>

\* the sdist downloaded stood behind a wheel in the response
C7_Witness ==
    /\ pc = "extract_source"
    /\ Len(package_info.urls) = 2
    /\ package_info.urls[1].packagetype = "bdist_wheel"
    /\ package_info.urls[2].packagetype = "sdist"
    /\ cmds[Len(cmds)].a[1] = package_info.urls[2].url

\* value of the last modifier of a version-control line that starts with one
\* of the given lexemes, None when there is none
ModifierValue(parts, names) ==
    LET hits == {i \in 2..Len(parts) : Head(parts[i]) \in names}
    IN  IF hits = {} THEN None
        ELSE Tail(parts[CHOOSE i \in hits : \A j \in hits : j <= i])

\* the classification the claim gives a line that is not skipped
ClaimedInfo(raw) ==
    LET line  == Strip(raw)
        parts == Split(line)
    IN  IF /\ Head(line) \in UrlSchemes
           /\ \E h \in {"github.com", "gitlab.com", ".git"} : Contains(line, h)
        THEN [type |-> "git", url |-> parts[1],
              branch |-> ModifierValue(parts, {"--branch=", "-b="}),
              tag |-> ModifierValue(parts, {"--tag=", "-t="}),
              commit |-> ModifierValue(parts, {"--commit=", "-c="}),
              package |-> None, version |-> None]
        ELSE LET at == {i \in DOMAIN line : line[i] = "=="}
             IN  [type |-> "pypi", url |-> None, branch |-> None, tag |-> None,
                  commit |-> None,
                  package |-> IF at = {} THEN line
                              ELSE Strip(SubSeq(line, 1, Least(at) - 1)),
                  version |-> IF at = {} THEN None
                              ELSE Strip(SubSeq(line, Least(at) + 1, Len(line)))]

\* C8: every line the batch loop has gone through is either blank or a
\* comment, and then not dispatched, or dispatched with the classification
\* of the claim: version-control with its modifiers captured, or registry,
\* pinned after "==".  The scenario manifest, run to its end, dispatched
\* exactly requests pinned to 2.31.0 and the repository with branch main.
C8_Classification ==
    InBatch =>
        /\ \A n \in 1..line_num :
              IF BlankOrComment(manifest[n])
              THEN \A k \in DOMAIN dispatched : dispatched[k][1] # n
              ELSE \E k \in DOMAIN dispatched :
                      dispatched[k] = <<n, ClaimedInfo(manifest[n])>>
        /\ (manifest = ExampleManifest /\ RanToEnd) =>
              dispatched =
                 << <<3, [SkipInfo EXCEPT !.type = "pypi", !.package = <<"requests">>,
                                          !.version = <<"2.31.0">>]>>,
                    <<4, [SkipInfo EXCEPT !.type = "git", !.url = GitUrl,
                                          !.branch = <<"main">>]>> >>

\* the scenario manifest has been gone through
C8_Witness ==
    /\ manifest = ExampleManifest
    /\ pc = "returned"
    /\ exc = "none"
    /\ Len(outcomes) = 2

\* C9: for a version-control request, git clone carries --branch exactly
\* when a branch is requested; a git checkout is issued only for a requested
\* tag or commit and only right after a git clone that succeeded; it names
\* tags/<tag> for a tag and the bare identifier for a commit.
C9_CloneThenCheckout ==
    request.type = "git" =>
        /\ \A i \in CmdsNamed({"git clone"}) :
              IF request.branch # None
              THEN SubSeq(cmds[i].a, 3, 4) = << <<"--branch">>, request.branch >>
              ELSE Len(cmds[i].a) = 2
        /\ \A j \in CmdsNamed({"git checkout"}) :
              /\ j > 1
              /\ cmds[j - 1].cmd = "git clone"
              /\ cmds[j - 1].out = "ok"
              /\ request.tag # None \/ request.commit # None
              /\ cmds[j].a = << IF request.tag # None THEN <<"tags/">> \o request.tag
                                ELSE request.commit >>
        /\ pc = "checkout" => (cmds # <<>> /\ cmds[Len(cmds)].out = "ok")

\* a request with branch and tag: cloned with --branch, then tags/v1 checked out
C9_Witness ==
    /\ request.type = "git"
    /\ request.branch # None
    /\ Len(cmds) = 2
    /\ cmds[1].cmd = "git clone"
    /\ cmds[2] = Cmd("git checkout", << <<"tags/", "v1">> >>, "ok")

\* the dependency installs in the log that did not succeed
FailedDeps == {i \in CmdsNamed({"pip install", "pip install -r"}) : cmds[i].out # "ok"}

\* C10: install_dependencies has returned True whenever it has returned,
\* whatever installs failed or raised; and a build that went through a tree
\* with a build system attempted its install command.
C10_DependenciesAdvisory ==
    /\ pc = "install" => deps_result = "True"
    /\ (Building /\ pc \in {"loop", "finally"}) =>
          /\ deps_result = "True"
          /\ BuildCommand(fs, source_dir) # "none" =>
                CmdsNamed({BuildCommand(fs, source_dir)}) = {Len(cmds)} \/
                (Len(cmds) > 1 /\ CmdsNamed({BuildCommand(fs, source_dir)}) = {Len(cmds) - 1})

\* one dependency install failed, the next raised, and the install command ran
C10_Witness ==
    /\ Building
    /\ pc = "loop"
    /\ \E i, j \in FailedDeps : cmds[i].out = "fail" /\ cmds[j].out = "raise"
    /\ CmdsNamed({"pip install .", "setup.py install"}) # {}

\* messages of the error records that report a failed step of a request:
\* source location, fetching, build/install
StepFailureMessages ==
    {"Failed to fetch package info", "Failed to get package info for",
     "No suitable distribution found", "Failed to download package",
     "Unsupported archive format", "Failed to extract archive",
     "Failed to clone repository", "Failed to checkout", "Error cloning repository",
     "No recognized build system found", "Installation failed", "Installation error"}

StepFailed == \E i \in DOMAIN logger : logger[i].msg \in StepFailureMessages

InstallCommands == {"pip install .", "setup.py install"}

\* C11: a single-package invocation (a registry package or --git) in which a
\* step of the request failed ends with run returning False and exit status
\* 1; it ends with exit status 0 only when the install command of that
\* package succeeded.
C11_SingleFailureSurfaced ==
    (pc = "exit" /\ ~InBatch /\ outcomes # <<>>) =>
        /\ StepFailed => (result = "False" /\ exit_code = 1)
        /\ outcomes[1] # "ok" => exit_code = 1
        /\ exit_code = 0 =>
              /\ result = "True"
              /\ \E i \in CmdsNamed(InstallCommands) : cmds[i].out = "ok"

\* a registry package whose install command failed: exit status 1
C11_Witness ==
    /\ pc = "exit"
    /\ args.package # None
    /\ \E i \in CmdsNamed(InstallCommands) : cmds[i].out = "fail"
    /\ exit_code = 1

\* the system-dependency check failed, or the manifest could not be read
BatchNotStarted ==
    \E i \in DOMAIN logger :
        logger[i].msg \in {"Failed to install system dependencies", "Failed to read file"}

\* C12: a batch invocation whose system-dependency check passed and whose
\* manifest was read ends, when no exception leaves run, with run returning
\* True and exit status 0, whatever the entries' outcomes.
C12_BatchNeverEscalates ==
    (InBatch /\ pc = "exit" /\ result # "none" /\ exc = "none" /\ ~BatchNotStarted) =>
        (result = "True" /\ exit_code = 0)

\* every entry of a two-entry batch failed, one by a returned failure and
\* one by an exception, and the exit status is 0
C12_Witness ==
    /\ InBatch
    /\ pc = "exit"
    /\ Len(dispatched) = 2
    /\ outcomes = <<"fail", "raised">>
    /\ exit_code = 0

\* positions at which no request is being processed
Ended == {"loop", "finally", "returned", "exit"}

FetchCommands == {"urlopen", "urlretrieve", "git clone", "git checkout"}

BuildStageCommands == {"pip install", "pip install -r"} \cup InstallCommands

\* messages of the error records of a failed lookup, download, extraction,
\* clone or checkout
FetchFailureMessages ==
    StepFailureMessages \ {"No recognized build system found", "Installation failed",
                           "Installation error"}

\* C13: a lookup, download, clone or checkout that failed is the last
\* command of its request, and the request has ended, in a batch back in the
\* loop for the next line; once a lookup, download, extraction, clone or
\* checkout has failed, no dependency install and no build command belongs to
\* the request; and every command of a later stage stands behind the
\* successful commands of the earlier stages.
C13_StagesInOrder ==
    /\ \A i \in CmdsNamed(FetchCommands) :
          cmds[i].out # "ok" =>
             /\ i = Len(cmds)
             /\ pc \in Ended
             /\ InBatch => pc = "loop"
    /\ (\E i \in DOMAIN logger : logger[i].msg \in FetchFailureMessages) =>
          /\ pc \in Ended
          /\ CmdsNamed(BuildStageCommands) = {}
    /\ \A i \in CmdsNamed({"urlretrieve"}) :
          i = 2 /\ cmds[1] = Cmd("urlopen", cmds[1].a, "ok")
    /\ \A i \in CmdsNamed({"git checkout"}) :
          i = 2 /\ cmds[1] = Cmd("git clone", cmds[1].a, "ok")
    /\ \A i \in CmdsNamed(BuildStageCommands) :
          /\ i > 2
          /\ cmds[2] = Cmd("urlretrieve", cmds[2].a, "ok")
          /\ pc \in InsideTry => Exists(fs, ExtractDir)
    /\ pc \in {"build_and_install_package", "install_dependencies", "install"} =>
          /\ Len(cmds) >= 2
          /\ \A i \in 1..2 : cmds[i].out = "ok"

\* in a batch, a checkout failed and the loop is at the next line
C13_Witness ==
    /\ InBatch
    /\ pc = "loop"
    /\ line_num < Len(manifest)
    /\ Len(cmds) = 2
    /\ cmds[2].cmd = "git checkout"
    /\ cmds[2].out = "fail"

\* the request is a version-control request whose clone, and checkout when
\* one was needed, succeeded, and which has ended
GitFetched ==
    /\ request.type = "git"
    /\ pc \in Ended
    /\ cmds # <<>>
    /\ cmds[1] = Cmd("git clone", CloneArgs(request), "ok")
    /\ NeedsCheckout(request) =>
          (Len(cmds) >= 2 /\ cmds[2] = Cmd("git checkout", <<CheckoutRef(request)>>, "ok"))

\* C14: a version-control request whose clone and checkout succeeded has
\* gone through the build/install step when it ends, and install_git_package
\* has returned, True exactly when the install command succeeded.
C14_GitPipeline ==
    GitFetched =>
        /\ outcomes # <<>>
        /\ outcomes[Len(outcomes)] \in {"ok", "fail"}
        /\ CmdsNamed(InstallCommands) # {}
        /\ outcomes[Len(outcomes)] = "ok" <=>
              \E i \in CmdsNamed(InstallCommands) : cmds[i].out = "ok"

\* ------------------------------------------------ src/misc/pypi_installer.py
\* The variant with the optional native-package strategy.  Its run method
\* dispatches nothing, so build_and_install_package is taken as called on the
\* inputs InitRpm draws: a workspace, a source directory, the two optional
\* arguments and the build_rpm flag.

RpmBuildDir == Append(TempDir, <<"rpmbuild">>)

RpmSubdirs == {<<"SOURCES">>, <<"SPECS">>, <<"BUILD">>, <<"RPMS">>, <<"SRPMS">>}

\* source directories the method may be called on, and what they hold
MiscSourceDirs == {Append(ExtractDir, <<"foo", "-1.0">>), Append(TempDir, <<"y">>)}

MiscTrees ==
    { Flat({<<"pyproject.toml">>, <<"setup.py">>}),
      Flat({<<"pyproject.toml">>}),
      Flat({<<"setup.py">>}),
      Flat({<<"module.py">>}) }

\* Path(source_dir).name
get_package_name_from_source(dir) == dir[Len(dir)]

InitRpm ==
    /\ pc = "misc_build_and_install_package"
    /\ argv = [positionals |-> 0, opts |-> {}, refs |-> {}]
    /\ args = NoArgs
    /\ \E dir \in MiscSourceDirs, tree \in MiscTrees, present \in BOOLEAN :
          /\ source_dir = dir
          /\ fs = {Entry(TempDir, TRUE)} \cup
                  (IF present
                   THEN {Entry(SubSeq(dir, 1, n), TRUE) : n \in 2..Len(dir)} \cup Under(dir, tree)
                   ELSE {})
    /\ \E package_name \in {None, <<"foo">>}, version \in {None, <<"1.0">>} :
          request = [SkipInfo EXCEPT !.package = package_name, !.version = version]
    /\ build_rpm \in BOOLEAN
    /\ rpm_build_dir = None
    /\ cwd = OrigDir
    /\ cwd_saved = <<>>
    /\ manifest = <<>>
    /\ line_num = 0
    /\ dispatched = <<>>
    /\ outcomes = <<>>
    /\ package_info = NoInfo
    /\ archive_path = None
    /\ archive = {}
    /\ todo = <<>>
    /\ deps_result = "none"
    /\ cmds = <<>>
    /\ result = "none"
    /\ exc = "none"
    /\ exit_code = -1
    /\ logger = <<>>

\* the variables no step of the variant's build_and_install_package touches
misc_fixed ==
    <<argv, args, manifest, line_num, dispatched, outcomes, package_info, archive,
      source_dir, todo, deps_result, exit_code>>

\* build_and_install_package returns v
MiscReturn(v) ==
    /\ pc' = "misc_returned"
    /\ result' = v
    /\ UNCHANGED exc

\* an exception leaves build_and_install_package: the native-package branch
\* has no try block
MiscRaise(e) ==
    /\ pc' = "misc_returned"
    /\ exc' = e
    /\ UNCHANGED result

\* lines 177-190: the defaults of the two optional arguments, then the choice
\* of the strategy; the direct strategy changes into source_dir
misc_build_and_install_package ==
    /\ pc = "misc_build_and_install_package"
    /\ request' = [request EXCEPT
                      !.package = IF @ = None THEN get_package_name_from_source(source_dir)
                                  ELSE @,
                      !.version = IF @ = None THEN <<"0.1">> ELSE @]
    /\ IF build_rpm
       THEN /\ pc' = "create_rpm_tarball"
            /\ UNCHANGED <<cwd, cwd_saved, result, exc, logger>>
       ELSE IF IsDir(fs, source_dir)
       THEN /\ cwd' = source_dir
            /\ cwd_saved' = <<cwd>>
            /\ pc' = "misc_install"
            /\ UNCHANGED <<result, exc, logger>>
       ELSE /\ MiscReturn("False")              \* os.chdir raises: except, return False
            /\ Emit(<<Rec("error", "Error during install", 0, "none")>>)
            /\ UNCHANGED <<cwd, cwd_saved>>
    /\ UNCHANGED <<fs, archive_path, cmds, rpm_vars>>
    /\ UNCHANGED misc_fixed

TarballName(pkg) == pkg \o <<".tar.gz">>

\* lines 90-99
create_rpm_tarball ==
    /\ pc = "create_rpm_tarball"
    /\ LET path == Append(TempDir, TarballName(request.package)) IN
       \E ok \in (IF IsDir(fs, source_dir) THEN BOOLEAN ELSE {FALSE}) :
          IF ok
          THEN /\ fs' = fs \cup {Entry(path, FALSE)}
               /\ archive_path' = path
               /\ pc' = "setup_rpm_build_tree"
               /\ UNCHANGED <<result, exc, logger>>
          ELSE /\ Emit(<<Rec("error", "Failed tarball creation", 0, "none")>>)
               /\ MiscReturn("False")
               /\ UNCHANGED <<fs, archive_path>>
    /\ UNCHANGED <<cwd, cwd_saved, request, cmds, rpm_vars>>
    /\ UNCHANGED misc_fixed

\* lines 84-88
setup_rpm_build_tree ==
    /\ pc = "setup_rpm_build_tree"
    /\ rpm_build_dir' = RpmBuildDir
    /\ fs' = fs \cup {Entry(RpmBuildDir, TRUE)}
                \cup {Entry(Append(RpmBuildDir, sub), TRUE) : sub \in RpmSubdirs}
    /\ pc' = "copy_tarball"
    /\ UNCHANGED <<cwd, cwd_saved, request, archive_path, cmds, result, exc, logger,
                   build_rpm>>
    /\ UNCHANGED misc_fixed

\* line 143: shutil.copy(tarball, SOURCES)
copy_tarball ==
    /\ pc = "copy_tarball"
    /\ \E ok \in BOOLEAN :
          IF ok
          THEN /\ fs' = fs \cup {Entry(rpm_build_dir \o <<<<"SOURCES">>,
                                                          archive_path[Len(archive_path)]>>,
                                      FALSE)}
               /\ pc' = "generate_rpm_spec"
               /\ UNCHANGED <<result, exc>>
          ELSE /\ MiscRaise("OSError")
               /\ UNCHANGED fs
    /\ UNCHANGED <<cwd, cwd_saved, request, archive_path, cmds, logger, rpm_vars>>
    /\ UNCHANGED misc_fixed

SpecPath(dir, pkg) == dir \o << <<"SPECS">>, <<"python-">> \o pkg \o <<".spec">> >>

\* lines 101-135
generate_rpm_spec ==
    /\ pc = "generate_rpm_spec"
    /\ \E ok \in BOOLEAN :
          IF ok
          THEN /\ fs' = fs \cup {Entry(SpecPath(rpm_build_dir, request.package), FALSE)}
               /\ pc' = "rpmbuild"
               /\ UNCHANGED <<result, exc, logger>>
          ELSE /\ Emit(<<Rec("error", "Spec generation failed", 0, "none")>>)
               /\ MiscReturn("False")
               /\ UNCHANGED fs
    /\ UNCHANGED <<cwd, cwd_saved, request, archive_path, cmds, rpm_vars>>
    /\ UNCHANGED misc_fixed

\* what a successful rpmbuild may leave under RPMS
RpmProduced(dir, pkg) ==
    { {},
      {Entry(dir \o << <<"RPMS">>, <<"noarch">> >>, TRUE),
       Entry(dir \o << <<"RPMS">>, <<"noarch">>, <<"python-">> \o pkg \o <<".rpm">> >>, FALSE)} }

\* lines 147-150: rpmbuild -ba on the spec file
rpmbuild ==
    /\ pc = "rpmbuild"
    /\ \E out \in {"ok", "fail", "raise"} :
          /\ cmds' = Append(cmds, Cmd("rpmbuild",
                                      <<SpecPath(rpm_build_dir, request.package)>>, out))
          /\ CASE out = "ok" ->
                    /\ \E made \in RpmProduced(rpm_build_dir, request.package) :
                          fs' = fs \cup made
                    /\ pc' = "find_rpm"
                    /\ UNCHANGED <<result, exc, logger>>
               [] out = "fail" ->
                    /\ Emit(<<Rec("error", "RPM build failed", 0, "none")>>)
                    /\ MiscReturn("False")
                    /\ UNCHANGED fs
               [] OTHER ->
                    /\ MiscRaise("OSError")
                    /\ UNCHANGED <<fs, logger>>
    /\ UNCHANGED <<cwd, cwd_saved, request, archive_path, rpm_vars>>
    /\ UNCHANGED misc_fixed

\* mutant: the path the package is expected at, found or not
FindRpmAssumed(tree, dir) ==
    dir \o << <<"RPMS">>, <<"noarch">>, <<"python-", "foo", ".rpm">> >>

\* lines 152-155: the os.walk of RPMS; the first file ending in .rpm, None
\* when there is none
FindRpm(tree, dir) ==
    LET rpms == {e \in tree : /\ IsPrefix(Append(dir, <<"RPMS">>), e.path)
                              /\ ~e.isdir
                              /\ EndsWith(e.path[Len(e.path)], ".rpm")}
    IN  IF rpms = {} THEN None ELSE (CHOOSE e \in rpms : TRUE).path

\* lines 151-157
find_rpm ==
    /\ pc = "find_rpm"
    /\ IF FindRpm(fs, rpm_build_dir) # None
       THEN /\ pc' = "install_rpm_package"
            /\ UNCHANGED <<result, exc, logger>>
       ELSE /\ Emit(<<Rec("error", "RPM not found after build", 0, "none")>>)
            /\ MiscReturn("False")
    /\ UNCHANGED <<fs, cwd, cwd_saved, request, archive_path, cmds, rpm_vars>>
    /\ UNCHANGED misc_fixed

\* lines 159-169, and the return of line 185
install_rpm_package ==
    /\ pc = "install_rpm_package"
    /\ \E out \in {"ok", "fail", "raise"} :
          /\ cmds' = Append(cmds, Cmd("dnf install", <<FindRpm(fs, rpm_build_dir)>>, out))
          /\ CASE out = "ok" ->
                    /\ MiscReturn("True")
                    /\ UNCHANGED logger
               [] out = "fail" ->
                    /\ Emit(<<Rec("error", "RPM install failed", 0, "none")>>)
                    /\ MiscReturn("False")
               [] OTHER ->
                    /\ MiscRaise("OSError")
                    /\ UNCHANGED logger
    /\ UNCHANGED <<fs, cwd, cwd_saved, request, archive_path, rpm_vars>>
    /\ UNCHANGED misc_fixed

\* what lines 210-221 log for install command c that ended as out
MiscInstallRecords(c, out) ==
    CASE out = "ok"   -> <<>>
      [] out = "fail" -> <<Rec("error", "Install failed", 0, c)>>
      [] OTHER        -> <<Rec("error", "Error during install", 0, "none")>>

\* lines 190-223: the direct strategy; install_dependencies does nothing here
misc_install ==
    /\ pc = "misc_install"
    /\ LET c == BuildCommand(fs, cwd) IN
       IF c = "none"
       THEN /\ Emit(<<Rec("error", "No recognized build system", 0, "none")>>)
            /\ MiscReturn("False")
            /\ UNCHANGED cmds
       ELSE \E out \in {"ok", "fail", "raise"} :
               /\ cmds' = Append(cmds, Cmd(c, InstallOpts, out))
                          \o (IF out = "ok" THEN <<Cmd("ldconfig", <<>>, "ok")>> ELSE <<>>)
               /\ Emit(MiscInstallRecords(c, out))
               /\ MiscReturn(IF out = "ok" THEN "True" ELSE "False")
    /\ cwd' = cwd_saved[Len(cwd_saved)]                   \* finally: os.chdir
    /\ cwd_saved' = <<>>
    /\ UNCHANGED <<fs, request, archive_path, rpm_vars>>
    /\ UNCHANGED misc_fixed

NextRpm ==
    \/ misc_build_and_install_package
    \/ create_rpm_tarball
    \/ setup_rpm_build_tree
    \/ copy_tarball
    \/ generate_rpm_spec
    \/ rpmbuild
    \/ find_rpm
    \/ install_rpm_package
    \/ misc_install

SpecRpm == InitRpm /\ [][NextRpm]_vars

\* the files directly under subdirectory sub of the build tree
FilesIn(sub) ==
    {e \in fs : /\ IsPrefix(Append(RpmBuildDir, sub), e.path)
                /\ Len(e.path) = Len(RpmBuildDir) + 2
                /\ ~e.isdir}

TreeReady == \A sub \in RpmSubdirs : IsDir(fs, Append(RpmBuildDir, sub))

\* the .rpm files anywhere under RPMS
RpmFiles ==
    {e \in fs : /\ IsPrefix(Append(RpmBuildDir, <<"RPMS">>), e.path)
                /\ ~e.isdir
                /\ e.path[Len(e.path)][Len(e.path[Len(e.path)])] = ".rpm"}

\* C15: in the native-package strategy an archive is in SOURCES only in a
\* complete build tree, a spec file is under SPECS only with the archive in
\* SOURCES, rpmbuild is invoked only on a written spec file, the install
\* tool only after a successful rpmbuild and on an .rpm file that exists
\* under RPMS, and build_and_install_package returns True only after a
\* successful run of the install tool.
C15_RpmStepsInOrder ==
    build_rpm =>
        /\ FilesIn(<<"SOURCES">>) # {} => TreeReady
        /\ FilesIn(<<"SPECS">>) # {} => FilesIn(<<"SOURCES">>) # {}
        /\ \A i \in CmdsNamed({"rpmbuild"}) :
              /\ i = 1
              /\ \E e \in FilesIn(<<"SPECS">>) : cmds[i].a = <<e.path>>
        /\ RpmFiles # {} => cmds # <<>> /\ cmds[1].cmd = "rpmbuild" /\ cmds[1].out = "ok"
        /\ \A i \in CmdsNamed({"dnf install"}) :
              /\ i = 2
              /\ cmds[1].cmd = "rpmbuild" /\ cmds[1].out = "ok"
              /\ \E e \in RpmFiles : cmds[i].a = <<e.path>>
        /\ result = "True" => \E i \in CmdsNamed({"dnf install"}) : cmds[i].out = "ok"
        /\ CmdsNamed(InstallCommands) = {}

\* the whole chain has run and the produced package was installed
C15_Witness ==
    /\ build_rpm
    /\ pc = "misc_returned"
    /\ result = "True"
    /\ Len(cmds) = 2

NeitherFile(dir) ==
    ~HasFile(dir, <<"pyproject.toml">>) /\ ~HasFile(dir, <<"setup.py">>)

\* the error record of a source tree without build system has been logged
NoBuildSystemLogged ==
    \E i \in DOMAIN logger :
        logger[i].msg \in {"No recognized build system found", "No recognized build system"}

\* C16: in the direct strategy, the build step of a tree with neither
\* pyproject.toml nor setup.py ends in failure with no install command run;
\* ldconfig is run only right after an install command that exited with 0,
\* and after every such command.
C16_DirectInstallOutcome ==
    /\ NoBuildSystemLogged =>
          /\ CmdsNamed(InstallCommands \cup {"ldconfig"}) = {}
          /\ pc \in Ended \cup {"misc_returned"}
          /\ outcomes # <<>> => outcomes[Len(outcomes)] = "fail"
          /\ result \in {"none", "False"} \/ InBatch
    /\ (/\ pc \in InsideTry \cup {"finally"}
        /\ source_dir # None
        /\ deps_result = "True"
        /\ pc # "install"
        /\ NeitherFile(source_dir)) =>
              (NoBuildSystemLogged /\ CmdsNamed(InstallCommands) = {})
    /\ \A i \in CmdsNamed({"ldconfig"}) :
          /\ i > 1
          /\ cmds[i - 1].cmd \in InstallCommands
          /\ cmds[i - 1].out = "ok"
    /\ \A i \in CmdsNamed(InstallCommands) :
          cmds[i].out = "ok" => (i < Len(cmds) /\ cmds[i + 1].cmd = "ldconfig")

\* a tree with neither file went through the build step: dependencies from
\* its requirement file aside, nothing was run
C16_Witness ==
    /\ NoBuildSystemLogged
    /\ source_dir # None
    /\ deps_result = "True"
    /\ NeitherFile(source_dir)
    /\ pc \in Ended

\* the subprocesses of the build/install step, in either strategy
BuildStepCommands == InstallCommands \cup {"rpmbuild", "dnf install"}

\* C17: every subprocess of the build/install step that exited with a
\* non-zero code has an error record that carries its captured stderr or
\* stdout.
C17_FailureCarriesOutput ==
    \A i \in CmdsNamed(BuildStepCommands) :
        cmds[i].out = "fail" =>
            \E j \in DOMAIN logger :
                logger[j].level = "error" /\ logger[j].output = cmds[i].cmd

\* the batch loop is back from the entry of the line it is at
EntryJustEnded ==
    /\ InBatch
    /\ pc = "loop"
    /\ dispatched # <<>>
    /\ Len(outcomes) = Len(dispatched)
    /\ dispatched[Len(dispatched)][1] = line_num

\* C18: when the processing of a manifest entry has ended in failure, by an
\* exception or by a returned False, an error record carrying the line
\* number of that entry has been logged.
C18_FailureNamesLine ==
    (EntryJustEnded /\ outcomes[Len(outcomes)] # "ok") =>
        \E j \in DOMAIN logger : logger[j].level = "error" /\ logger[j].line = line_num

\* C19: every external command and network call issued carries a timeout,
\* and the process is never left waiting in a call that does not answer.
C19_StepsBounded ==
    /\ \A i \in DOMAIN cmds : cmds[i].timeout # None
    /\ pc # "blocked"

\* C20: in a batch, the process is inside the steps of an entry exactly
\* when that entry is the one dispatched entry that has not ended, and a new
\* entry is dispatched, and a command is issued, only from there: every step
\* of an entry has ended before the first step of the next one begins.
C20_Sequential ==
    /\ [](InBatch =>
            /\ pc \in StepPositions => Len(dispatched) = Len(outcomes) + 1
            /\ pc \notin StepPositions => Len(dispatched) = Len(outcomes))
    /\ [][/\ Len(dispatched') > Len(dispatched) =>
                /\ pc = "loop"
                /\ Len(outcomes) = Len(dispatched)
                /\ Len(dispatched') = Len(dispatched) + 1
          /\ (InBatch /\ Len(cmds') > Len(cmds)) =>
                /\ pc \in StepPositions
                /\ dispatched' = dispatched
                /\ request' = request]_vars

\* the second entry of a batch is in its steps and the first has ended
C20_Witness ==
    /\ InBatch
    /\ Len(dispatched) = 2
    /\ Len(outcomes) = 1
    /\ pc \in StepPositions
    /\ cmds # <<>>

\* the invocation names a file documented as holding registry packages only
RegistryOnlyFile == args.requirements # None \/ args.list_file # None

\* C21: in a run started with a requirements file (-r) or a list file (-l)
\* no git clone is performed, whatever the lines of the file hold: no git
\* command is issued.
C21_NoCloneOutsideMixed ==
    RegistryOnlyFile => CmdsNamed({"git clone", "git checkout"}) = {}

\* the command line gives a reference option without --git, or a version
\* argument together with --git
MisusedOptions ==
    LET a == ParseArgs(argv) IN
    \/ a.git_url = None /\ (a.branch # None \/ a.tag # None \/ a.commit # None)
    \/ a.git_url # None /\ a.version # None

\* C22: a command line with --branch, --tag or --commit but no --git, or with
\* a version argument and --git, never gets past the validation in main: the
\* process exits with the status of parser.error, no workspace is created, no
\* command or network call is issued and nothing of the installer is logged.
C22_ValidationBeforeWorkspace ==
    MisusedOptions =>
        /\ pc \in {"main", "exit"}
        /\ pc = "exit" => exit_code = 2
        /\ fs = {}
        /\ cmds = <<>>
        /\ logger = <<>>
        /\ dispatched = <<>>

\* a registry package given with --tag was rejected
C22_Witness ==
    /\ pc = "exit"
    /\ exit_code = 2
    /\ args.package # None
    /\ args.git_url = None
    /\ args.tag # None
    /\ GroupCount(args) = 1

\* C23: when an archive unpacked to exactly one top-level entry and that
\* entry is a file, the source root extract_source returns is the extraction
\* root, not the path of the file.
C23_SingleFileRoot ==
    (/\ pc = "build_and_install_package"
     /\ Cardinality(TopLevel(archive)) = 1
     /\ \A e \in TopLevel(archive) : ~e.isdir) =>
        source_dir = ExtractDir

\* what lies under the extraction directory
Extracted == {e \in fs : IsPrefix(ExtractDir, e.path) /\ e.path # ExtractDir}

\* the source root lines 287-292 give an archive unpacked into an extraction
\* directory that was empty
RootAlone(content) == ResolveSourceRoot({Entry(ExtractDir, TRUE)} \cup Under(ExtractDir, content))

\* C24: when extract_source has resolved the source root of a registry
\* request, the extraction directory holds the contents of that request's
\* archive and nothing else, and the source root is the one the same archive
\* gives when it is processed alone.
C24_ExtractionIsolated ==
    pc = "build_and_install_package" =>
        /\ Extracted = Under(ExtractDir, archive)
        /\ source_dir = RootAlone(archive)

BinaryExtensions == {".whl", ".egg"}

\* the downloads of the request that fetched a binary distribution
BinaryFetched ==
    {i \in CmdsNamed({"urlretrieve"}) :
        cmds[i].out = "ok" /\ cmds[i].a[2][Len(cmds[i].a[2])] \in BinaryExtensions}

\* C25: a binary distribution download_source fell back to and fetched is
\* accepted by extract_source: the request is not ended by extract_source
\* refusing the format of the artifact.
C25_BinaryFallbackFetched ==
    BinaryFetched # {} =>
        \A j \in DOMAIN logger : logger[j].msg # "Unsupported archive format"

\* the manifest could not be opened or read
ManifestUnread == \E j \in DOMAIN logger : logger[j].msg = "Failed to read file"

\* C26: a batch invocation whose manifest file could not be opened or read,
\* so that no entry was processed, exits with status 1.
C26_UnreadableManifestFails ==
    (pc = "exit" /\ InBatch /\ ManifestUnread) =>
        (dispatched = <<>> /\ exit_code = 1)

\* the dependency installs of the request, in the order they were issued
DepCommands == SelectSeq(cmds, LAMBDA c : c.cmd \in {"pip install", "pip install -r"})

\* the install a requirement file at rel under dir calls for, if it exists
ReqInstall(dir, rel) ==
    IF Exists(fs, dir \o rel)
    THEN <<PendingInstall("pip install -r", rel[Len(rel)])>>
    ELSE <<>>

\* the order of attempts the claim gives for the tree in dir
ClaimedPlan(dir) ==
    LET deps == IF HasFile(dir, <<"pyproject.toml">>) THEN PyprojectDeps
                ELSE IF HasFile(dir, <<"setup.py">>) THEN SetupPyDeps
                ELSE <<>>
    IN  ReqInstall(dir, << <<"requirements.txt">> >>)
        \o ReqInstall(dir, << <<"requirements">>, <<"base.txt">> >>)
        \o ReqInstall(dir, << <<"requirements">>, <<"production.txt">> >>)
        \o [i \in 1..Len(deps) |-> PendingInstall("pip install", deps[i])]

AfterChdir == {"checkout", "install_dependencies", "install", "blocked"}

\* C29: outside clone_git_repository, install_dependencies and
\* build_and_install_package the working directory is the one the process
\* started in, however the calls before ended, and no original_dir is left
\* to restore; when install_dependencies has returned into
\* build_and_install_package the working directory is the one it was called
\* in.  In particular every batch entry starts in the starting directory.
C29_WorkingDirectoryKept ==
    /\ pc \notin AfterChdir => (cwd = OrigDir /\ cwd_saved = <<>>)
    /\ pc = "install" => (cwd = source_dir /\ cwd_saved = <<OrigDir>>)
    /\ pc = "checkout" => cwd_saved = <<OrigDir>>

\* in a batch, the install command of an entry raised and the loop is at the
\* next line, in the starting directory
C29_Witness ==
    /\ InBatch
    /\ pc = "loop"
    /\ line_num < Len(manifest)
    /\ \E i \in CmdsNamed(InstallCommands) : cmds[i].out = "raise"
    /\ \E i \in CmdsNamed({"pip install", "pip install -r"}) : cmds[i].out = "raise"
    /\ cwd = OrigDir

\* the directory a version-control request is about to be cloned into
CloneDir == Append(TempDir, parse_git_url(request.url)[2])

\* C30: a version-control entry is cloned into a directory that does not yet
\* exist in the workspace, so that the clone of a later entry neither fails
\* nor picks up content because of the clone of an earlier one.
C30_FreshCloneDir ==
    pc = "clone_git_repository" => ~Exists(fs, CloneDir)

\* ------------------------------------- main and run of src/misc/pypi_installer.py
MiscArgvPool ==
    [positionals : 0..2,
     opts : SUBSET {"-r", "--git", "--rpm"},
     refs : SUBSET {"--branch", "--tag", "--commit"}]

\* parser.parse_args() of the variant
MiscParseArgs(av) ==
    [package      |-> IF av.positionals >= 1 THEN <<"requests">> ELSE None,
     version      |-> IF av.positionals >= 2 THEN <<"2.31.0">> ELSE None,
     requirements |-> IF "-r" \in av.opts THEN <<"requirements.txt">> ELSE None,
     git_url      |-> IF "--git" \in av.opts THEN GitUrl ELSE None,
     branch       |-> IF "--branch" \in av.refs THEN <<"main">> ELSE None,
     tag          |-> IF "--tag" \in av.refs THEN <<"v1">> ELSE None,
     commit       |-> IF "--commit" \in av.refs THEN <<"abc123">> ELSE None,
     rpm          |-> "--rpm" \in av.opts]

\* the one check parse_args makes: the required, mutually exclusive group
MiscArgsRejected(a) ==
    Cardinality({k \in {"package", "requirements", "git_url"} : a[k] # None}) # 1

InitMisc ==
    /\ pc = "misc_main"
    /\ argv \in MiscArgvPool
    /\ args = NoArgs
    /\ fs = {}
    /\ cwd = OrigDir
    /\ cwd_saved = <<>>
    /\ manifest = <<>>
    /\ line_num = 0
    /\ dispatched = <<>>
    /\ outcomes = <<>>
    /\ request = SkipInfo
    /\ package_info = NoInfo
    /\ archive_path = None
    /\ archive = {}
    /\ source_dir = None
    /\ todo = <<>>
    /\ deps_result = "none"
    /\ cmds = <<>>
    /\ result = "none"
    /\ exc = "none"
    /\ exit_code = -1
    /\ logger = <<>>
    /\ build_rpm = FALSE
    /\ rpm_build_dir = None

\* the variables main and run of the variant never touch
misc_run_fixed ==
    <<argv, cwd, cwd_saved, manifest, line_num, dispatched, outcomes, request,
      package_info, archive_path, archive, source_dir, todo, deps_result, cmds, exc,
      rpm_build_dir>>

\* lines 289-306, with the root test of __init__
misc_main ==
    /\ pc = "misc_main"
    /\ LET a == MiscParseArgs(argv) IN
       /\ args' = a
       /\ IF MiscArgsRejected(a)
          THEN Stop(2) /\ UNCHANGED logger
          ELSE \E is_root \in BOOLEAN :
                  IF is_root THEN pc' = "misc_run" /\ UNCHANGED <<exit_code, logger>>
                  ELSE /\ Stop(1)
                       /\ Emit(<<Rec("error", "This script must be run as root", 0, "none")>>)
    /\ UNCHANGED <<fs, result, build_rpm>>
    /\ UNCHANGED misc_run_fixed

\* lines 278-279
misc_run ==
    /\ pc = "misc_run"
    /\ build_rpm' = args.rpm
    /\ fs' = {Entry(TempDir, TRUE)}
    /\ pc' = "misc_check_dependencies"
    /\ UNCHANGED <<args, result, exit_code, logger>>
    /\ UNCHANGED misc_run_fixed

\* lines 45-82 and 281-282
misc_check_dependencies ==
    /\ pc = "misc_check_dependencies"
    /\ \E ok \in BOOLEAN :
          IF ok THEN pc' = "misc_dispatch" /\ UNCHANGED <<result, logger>>
          ELSE /\ pc' = "misc_finally"
               /\ result' = "False"
               /\ Emit(<<Rec("error", "Failed to install dependencies", 0, "none")>>)
    /\ UNCHANGED <<args, fs, exit_code, build_rpm>>
    /\ UNCHANGED misc_run_fixed

\* lines 283-284: where the dispatch would be there is a comment, and run
\* returns True
misc_run_dispatch ==
    /\ pc = "misc_dispatch"
    /\ pc' = "misc_finally"
    /\ result' = "True"
    /\ UNCHANGED <<args, fs, exit_code, logger, build_rpm>>
    /\ UNCHANGED misc_run_fixed

\* lines 225-229, in the finally clause of run
misc_cleanup ==
    /\ pc = "misc_finally"
    /\ fs' = IF IsDir(fs, TempDir) THEN {} ELSE fs
    /\ pc' = "misc_run_returned"
    /\ UNCHANGED <<args, result, exit_code, logger, build_rpm>>
    /\ UNCHANGED misc_run_fixed

\* line 308
misc_main_exit ==
    /\ pc = "misc_run_returned"
    /\ Stop(IF result = "True" THEN 0 ELSE 1)
    /\ UNCHANGED <<args, fs, result, logger, build_rpm>>
    /\ UNCHANGED misc_run_fixed

NextMisc ==
    \/ misc_main
    \/ misc_run
    \/ misc_check_dependencies
    \/ misc_run_dispatch
    \/ misc_cleanup
    \/ misc_main_exit

SpecMisc == InitMisc /\ [][NextMisc]_vars

\* C28: the variant exits with status 0 only when the request of its command
\* line was dispatched and a build/install command of it succeeded.
C28_SuccessOnlyAfterInstall ==
    (pc = "exit" /\ exit_code = 0) =>
        /\ request.type # "skip"
        /\ \E i \in CmdsNamed(BuildStepCommands) : cmds[i].out = "ok"

====
